---- MODULE Spec2Model ----
(***************************************************************************)
(* font-kit, src/id.rs: the font identity FontId built from the bytes of   *)
(* an OpenType `head` table, its revision FontRevision and its flag set    *)
(* FontIdFlags, with their Debug/Display renderings.                       *)
(*                                                                         *)
(* Text is a sequence of one-character strings, a byte an integer 0..255,  *)
(* an i16/i32/u8 an integer of its range, a u32 a pair of 16-bit halves.   *)
(***************************************************************************)
EXTENDS Integers, Sequences, FiniteSets, TLC

----------------------------------------------------------------------------
(* Bounds of the model. *)

\* Longest `head` table span handed to the constructor.
MaxLen == 9

\* Values a byte of the fontRevision field (offsets 4..7) takes.
RevisionBytes == {0, 1, 5, 128, 255}

\* The four bytes in front of the fontRevision field (the table version).
VersionTags == {<<0, 1, 0, 0>>, <<255, 254, 253, 252>>}

\* Values the bytes behind the fontRevision field take (one value per table).
FillBytes == {0, 255}

\* Names handed to the constructor: a PostScript name and the empty name.
Names == {<<"A", "r", "i", "a", "l">>, <<>>}

----------------------------------------------------------------------------
(* The state: one constructor call of the font loader and what the holder  *)
(* of the identity does with it afterwards.                                *)

VARIABLES
    name,                 \* the name handed to the constructor
    head_table_data,      \* the span handed to the constructor
    name_is_postscript,   \* the provenance flag handed to the constructor
    pc,                   \* "call", "built", "panicked" or "held"
    id,                   \* <<>> or <<the FontId held>>
    last,                 \* the latest operation on id and its result
    other,                \* <<>> or <<a second FontId held>>
    other_text            \* <<>> or <<the latest rendering of other>>

vars == <<name, head_table_data, name_is_postscript, pc, id, last,
          other, other_text>>

inputs == <<name, head_table_data, name_is_postscript>>

----------------------------------------------------------------------------
(* Machine integers.  An i16, an i32 or a u8 is an integer in its range; a *)
(* u32 is the record [hi, lo] of its two 16-bit halves.                    *)

Pow2(n) == 2 ^ n

\* `as i16`: the low 16 bits, read as two's complement.
AsI16(x) ==
    LET low == x % Pow2(16)
    IN  IF low >= Pow2(15) THEN low - Pow2(16) ELSE low

\* The bits of an i32 as a u32, and back.
BitsOfI32(x) == [hi |-> (x \div Pow2(16)) % Pow2(16), lo |-> x % Pow2(16)]

I32OfBits(u) == AsI16(u.hi) * Pow2(16) + u.lo

RECURSIVE XorBits(_, _)
XorBits(a, b) ==
    IF a = 0 THEN b
    ELSE IF b = 0 THEN a
    ELSE 2 * XorBits(a \div 2, b \div 2) + ((a + b) % 2)

\* ^ of two hexadecimal digits, tabulated.
NIBBLE_XOR == [a \in 0..15 |-> [b \in 0..15 |-> XorBits(a, b)]]

\* ^ of two unsigned numbers, one hexadecimal digit at a time.
RECURSIVE BitXor(_, _)
BitXor(a, b) ==
    IF a < 16 /\ b < 16 THEN NIBBLE_XOR[a][b]
    ELSE 16 * BitXor(a \div 16, b \div 16) + NIBBLE_XOR[a % 16][b % 16]

RECURSIVE BitOr(_, _)
BitOr(a, b) ==
    IF a = 0 THEN b
    ELSE IF b = 0 THEN a
    ELSE 2 * BitOr(a \div 2, b \div 2)
         + (IF a % 2 = 1 \/ b % 2 = 1 THEN 1 ELSE 0)

RECURSIVE BitAnd(_, _)
BitAnd(a, b) ==
    IF a = 0 \/ b = 0 THEN 0
    ELSE 2 * BitAnd(a \div 2, b \div 2)
         + (IF a % 2 = 1 /\ b % 2 = 1 THEN 1 ELSE 0)

\* u32 operators: ^, !, >> k (0 < k < 16), the low byte.
U32Xor(u, v) == [hi |-> BitXor(u.hi, v.hi), lo |-> BitXor(u.lo, v.lo)]

U32Not(u) == [hi |-> (Pow2(16) - 1) - u.hi, lo |-> (Pow2(16) - 1) - u.lo]

U32Shr(u, k) ==
    [hi |-> u.hi \div Pow2(k),
     lo |-> (u.lo \div Pow2(k)) + (u.hi % Pow2(k)) * Pow2(16 - k)]

U32LowByte(u) == u.lo % 256

U32OfByte(b) == [hi |-> 0, lo |-> b]

----------------------------------------------------------------------------
(* FontIdFlags (bitflags!, u8). *)

HAS_POSTSCRIPT_NAME == 1
IS_OPENTYPE == 2

\* FontIdFlags::insert
insert(flags, more) == BitOr(flags, more)

\* FontIdFlags::contains
contains(flags, some) == BitAnd(flags, some) = some

----------------------------------------------------------------------------
(* crc::crc32::checksum_castagnoli: CRC-32C, reflected polynomial          *)
(* 0x82F63B78, initial value and final xor 0xFFFFFFFF, one table lookup    *)
(* per byte.                                                               *)

CASTAGNOLI == [hi |-> 33526, lo |-> 15224]

RECURSIVE make_table_entry(_, _)
make_table_entry(value, rounds) ==
    IF rounds = 0 THEN value
    ELSE make_table_entry(IF value.lo % 2 = 1
                          THEN U32Xor(U32Shr(value, 1), CASTAGNOLI)
                          ELSE U32Shr(value, 1),
                          rounds - 1)

CASTAGNOLI_TABLE == [i \in 0..255 |-> make_table_entry(U32OfByte(i), 8)]

RECURSIVE crc32_update(_, _)
crc32_update(value, bytes) ==
    IF bytes = <<>> THEN value
    ELSE crc32_update(
             U32Xor(CASTAGNOLI_TABLE[BitXor(U32LowByte(value), Head(bytes))],
                    U32Shr(value, 8)),
             Tail(bytes))

checksum_castagnoli(bytes) ==
    U32Not(crc32_update(U32Not(U32OfByte(0)), bytes))

----------------------------------------------------------------------------
(* Slicing and byteorder::ReadBytesExt::read_i32::<BigEndian>. *)

\* &data[from..]: defined only when from <= len, a panic otherwise.
SliceInRange(data, from) == from <= Len(data)

SliceFrom(data, from) == SubSeq(data, from + 1, Len(data))

\* Faulty variant: the four bytes read least significant first.
read_i32_LittleEndian(buf) ==
    IF Len(buf) < 4
    THEN [ok |-> FALSE, value |-> 0]
    ELSE [ok |-> TRUE,
          value |-> I32OfBits([hi |-> buf[4] * Pow2(8) + buf[3],
                               lo |-> buf[2] * Pow2(8) + buf[1]])]

\* read_i32::<BigEndian>() on a byte slice: Err (UnexpectedEof) when fewer
\* than 4 bytes are left.
read_i32_BigEndian(buf) ==
    IF Len(buf) < 4
    THEN [ok |-> FALSE, value |-> 0]
    ELSE [ok |-> TRUE,
          value |-> I32OfBits([hi |-> buf[1] * Pow2(8) + buf[2],
                               lo |-> buf[3] * Pow2(8) + buf[4]])]

----------------------------------------------------------------------------
(* FontRevision(pub i32). *)

\* Faulty variant: self.0 / 65536, which rounds toward zero.
major_by_division(revision) ==
    AsI16((revision \div Pow2(16))
          + (IF revision < 0 /\ revision % Pow2(16) # 0 THEN 1 ELSE 0))

\* FontRevision::major: (self.0 >> 16) as i16, >> arithmetic on i32.
major(revision) == AsI16(revision \div Pow2(16))

\* FontRevision::minor: self.0 as i16.
minor(revision) == AsI16(revision)

----------------------------------------------------------------------------
(* Formatting. *)

DigitChars ==
    <<"0", "1", "2", "3", "4", "5", "6", "7", "8", "9",
      "a", "b", "c", "d", "e", "f">>

RECURSIVE DecDigits(_)
DecDigits(n) ==
    IF n < 10 THEN <<DigitChars[n + 1]>>
    ELSE DecDigits(n \div 10) \o <<DigitChars[(n % 10) + 1]>>

\* "{}" of an i16: decimal, a leading minus sign for a negative value.
fmt_i16(n) == IF n < 0 THEN <<"-">> \o DecDigits(-n) ELSE DecDigits(n)

RECURSIVE HexDigits(_)
HexDigits(u) ==
    IF u.hi = 0 /\ u.lo < 16 THEN <<DigitChars[u.lo + 1]>>
    ELSE HexDigits(U32Shr(u, 4)) \o <<DigitChars[(u.lo % 16) + 1]>>

RECURSIVE PadLeft(_, _, _)
PadLeft(text, width, fill) ==
    IF Len(text) >= width THEN text ELSE PadLeft(<<fill>> \o text, width, fill)

\* Faulty variant: "{:x}", no padding.
fmt_x(u) == HexDigits(u)

\* "{:08x}" of a u32: lowercase hexadecimal, padded with zeros to 8 columns.
fmt_08x(u) == PadLeft(HexDigits(u), 8, "0")

\* Faulty variant: the minor written even when it is zero.
FontRevision_Debug_fmt_always_minor(revision) ==
    fmt_i16(major(revision)) \o <<".">> \o fmt_i16(minor(revision))

\* Faulty variant: the minor never written.
FontRevision_Debug_fmt_major_only(revision) == fmt_i16(major(revision))

\* impl Debug for FontRevision
FontRevision_Debug_fmt(revision) ==
    fmt_i16(major(revision))
    \o (IF minor(revision) # 0
        THEN <<".">> \o fmt_i16(minor(revision))
        ELSE <<>>)

\* impl Display for FontRevision
FontRevision_Display_fmt(revision) == FontRevision_Debug_fmt(revision)

\* impl Debug for FontId
FontId_Debug_fmt(self) ==
    self.name \o <<"/">> \o FontRevision_Display_fmt(self.revision)
    \o <<"/">> \o fmt_08x(self.hash)

\* impl Display for FontId
FontId_Display_fmt(self) == FontId_Debug_fmt(self)

----------------------------------------------------------------------------
(* FontId::from_opentype_head_table. *)

\* Faulty variant: the flag set assigned instead of inserted into.
head_table_flags_assigned(name_is_ps) ==
    IF name_is_ps THEN HAS_POSTSCRIPT_NAME ELSE IS_OPENTYPE

\* Lines 37-40: the flag set.
head_table_flags(name_is_ps) ==
    IF name_is_ps
    THEN insert(IS_OPENTYPE, HAS_POSTSCRIPT_NAME)
    ELSE IS_OPENTYPE

\* Lines 42-45: the revision, once the slice &head_table_data[4..] exists.
head_table_revision(data) ==
    LET r == read_i32_BigEndian(SliceFrom(data, 4))
    IN  IF r.ok THEN r.value ELSE 0

\* Faulty variant: the hash of the bytes left after the slice [4..].
head_table_hash_residual(data) == checksum_castagnoli(SliceFrom(data, 4))

\* Line 47: the hash.
head_table_hash(data) == checksum_castagnoli(data)

\* Faulty variant: the checksum register carried over from the identity
\* built before instead of starting afresh.
from_opentype_head_table_carried(nm, data, name_is_ps) ==
    IF ~SliceInRange(data, 4)
    THEN [panicked |-> TRUE, ids |-> <<>>]
    ELSE [panicked |-> FALSE,
          ids |-> <<[name     |-> nm,
                     revision |-> head_table_revision(data),
                     hash     |-> IF id = <<>>
                                  THEN head_table_hash(data)
                                  ELSE U32Not(crc32_update(U32Not(id[1].hash),
                                                           data)),
                     flags    |-> head_table_flags(name_is_ps)]>>]

\* The call's outcome: the FontId returned, or a panic at the slice
\* &head_table_data[4..] of a span shorter than 4 bytes.
from_opentype_head_table(nm, data, name_is_ps) ==
    IF ~SliceInRange(data, 4)
    THEN [panicked |-> TRUE, ids |-> <<>>]
    ELSE [panicked |-> FALSE,
          ids |-> <<[name     |-> nm,
                     revision |-> head_table_revision(data),
                     hash     |-> head_table_hash(data),
                     flags    |-> head_table_flags(name_is_ps)]>>]

----------------------------------------------------------------------------
(* The font loader: one `head` table span, one constructor call, then the  *)
(* holder of the identity uses it.                                         *)

RECURSIVE Fill(_, _)
Fill(byte, n) == IF n <= 0 THEN <<>> ELSE <<byte>> \o Fill(byte, n - 1)

\* The `head` tables of MaxLen bytes: version, fontRevision, the rest.
HeadTables ==
    {tag \o <<r[1], r[2], r[3], r[4]>> \o Fill(f, MaxLen - 8) :
        tag \in VersionTags,
        r \in [1..4 -> RevisionBytes],
        f \in FillBytes}

\* Every span the loader may hand over: a table cut at any length.
HeadTableSpans ==
    {SubSeq(t, 1, n) : t \in HeadTables, n \in 0..MaxLen}

NoResult == [op |-> "none", num |-> 0, text |-> <<>>, ids |-> <<>>]

Init ==
    /\ name \in Names
    /\ head_table_data \in HeadTableSpans
    /\ name_is_postscript \in BOOLEAN
    /\ pc = "call"
    /\ id = <<>>
    /\ last = NoResult
    /\ other = <<>>
    /\ other_text = <<>>

\* FontId::from_opentype_head_table(name, head_table_data, name_is_postscript)
Construct ==
    /\ pc = "call"
    /\ LET outcome == from_opentype_head_table(name, head_table_data,
                                               name_is_postscript)
       IN  /\ pc' = IF outcome.panicked THEN "panicked" ELSE "built"
           /\ id' = outcome.ids
    /\ UNCHANGED <<inputs, last, other, other_text>>

\* format!("{:?}", id)
DebugFontId ==
    /\ id # <<>>
    /\ last' = [NoResult EXCEPT !.op = "Debug",
                                !.text = FontId_Debug_fmt(id[1])]
    /\ UNCHANGED <<inputs, pc, id, other, other_text>>

\* format!("{}", id)
DisplayFontId ==
    /\ id # <<>>
    /\ last' = [NoResult EXCEPT !.op = "Display",
                                !.text = FontId_Display_fmt(id[1])]
    /\ UNCHANGED <<inputs, pc, id, other, other_text>>

\* format!("{:?}", id.revision)
DebugRevision ==
    /\ id # <<>>
    /\ last' = [NoResult EXCEPT !.op = "Debug revision",
                                !.text = FontRevision_Debug_fmt(id[1].revision)]
    /\ UNCHANGED <<inputs, pc, id, other, other_text>>

\* format!("{}", id.revision)
DisplayRevision ==
    /\ id # <<>>
    /\ last' = [NoResult EXCEPT !.op = "Display revision",
                                !.text = FontRevision_Display_fmt(id[1].revision)]
    /\ UNCHANGED <<inputs, pc, id, other, other_text>>

\* Faulty variant: the name moved out of the identity instead of cloned.
Clone_moving_name ==
    /\ id # <<>>
    /\ last' = [NoResult EXCEPT !.op = "clone", !.ids = id]
    /\ id' = <<[id[1] EXCEPT !.name = <<>>]>>
    /\ UNCHANGED <<inputs, pc, other, other_text>>

\* id.clone(), #[derive(Clone)]: every field cloned.
Clone ==
    /\ id # <<>>
    /\ last' = [NoResult EXCEPT !.op = "clone",
                                !.ids = <<[name     |-> id[1].name,
                                           revision |-> id[1].revision,
                                           hash     |-> id[1].hash,
                                           flags    |-> id[1].flags]>>]
    /\ UNCHANGED <<inputs, pc, id, other, other_text>>

\* id.revision.major()
Major ==
    /\ id # <<>>
    /\ last' = [NoResult EXCEPT !.op = "major",
                                !.num = major(id[1].revision)]
    /\ UNCHANGED <<inputs, pc, id, other, other_text>>

\* id.revision.minor()
Minor ==
    /\ id # <<>>
    /\ last' = [NoResult EXCEPT !.op = "minor",
                                !.num = minor(id[1].revision)]
    /\ UNCHANGED <<inputs, pc, id, other, other_text>>

\* A second call of the constructor on the same three inputs.
ConstructAgain ==
    /\ pc = "built"
    /\ LET outcome == from_opentype_head_table(name, head_table_data,
                                               name_is_postscript)
       IN  last' = [NoResult EXCEPT
                        !.op = IF outcome.panicked THEN "panicked" ELSE "again",
                        !.ids = outcome.ids]
    /\ UNCHANGED <<inputs, pc, id, other, other_text>>

Next ==
    \/ Construct
    \/ DebugFontId
    \/ DisplayFontId
    \/ DebugRevision
    \/ DisplayRevision
    \/ Clone
    \/ Major
    \/ Minor
    \/ ConstructAgain

Spec == Init /\ [][Next]_vars

----------------------------------------------------------------------------
(* A holder of two identities renders both.  All four fields of FontId are *)
(* public, so the identities are drawn field by field; no constructor call *)
(* is part of this specification.                                          *)

PairNames ==
    {<<"a">>, <<"a", "/", "1">>, <<"a", "/", "1", ".", "5">>}

\* 1, 1.5, 5, 0.5, 15 and -1.-1
PairRevisions == {65536, 65541, 327680, 5, 983040, -1}

PairHashes ==
    {[hi |-> 0, lo |-> 0], [hi |-> 0, lo |-> 10], [hi |-> 40960, lo |-> 0]}

HeldIds(flagsets) ==
    {[name |-> n, revision |-> r, hash |-> h, flags |-> f] :
        n \in PairNames, r \in PairRevisions, h \in PairHashes, f \in flagsets}

InitPair ==
    /\ name = <<>>
    /\ head_table_data = <<>>
    /\ name_is_postscript = FALSE
    /\ pc = "held"
    /\ \E a \in HeldIds({IS_OPENTYPE}) : id = <<a>>
    /\ last = NoResult
    /\ \E b \in HeldIds({IS_OPENTYPE, insert(IS_OPENTYPE, HAS_POSTSCRIPT_NAME)}) :
           other = <<b>>
    /\ other_text = <<>>

\* format!("{:?}", other)
DebugOther ==
    /\ other # <<>>
    /\ other_text' = <<FontId_Debug_fmt(other[1])>>
    /\ UNCHANGED <<inputs, pc, id, last, other>>

\* format!("{}", other)
DisplayOther ==
    /\ other # <<>>
    /\ other_text' = <<FontId_Display_fmt(other[1])>>
    /\ UNCHANGED <<inputs, pc, id, last, other>>

NextPair ==
    \/ DebugFontId
    \/ DisplayFontId
    \/ DebugOther
    \/ DisplayOther

SpecPair == InitPair /\ [][NextPair]_vars

----------------------------------------------------------------------------
(* Reference definitions the properties are stated with.                   *)

\* Bytes b4 b5 b6 b7 as a signed 32-bit big-endian number, b4 first.
SignedBigEndian(b4, b5, b6, b7) ==
    (IF b4 >= 128 THEN b4 - 256 ELSE b4) * 16777216
    + b5 * 65536 + b6 * 256 + b7

\* CRC-32C one bit at a time: reflected polynomial 0x82F63B78, register
\* preset to all ones, result complemented.
HalveU32(reg) ==
    [hi |-> reg.hi \div 2, lo |-> (reg.lo \div 2) + (reg.hi % 2) * 32768]

RECURSIVE Crc32cBits(_, _)
Crc32cBits(reg, rounds) ==
    IF rounds = 0 THEN reg
    ELSE Crc32cBits(IF reg.lo % 2 = 1
                    THEN [hi |-> BitXor(HalveU32(reg).hi, 33526),
                          lo |-> BitXor(HalveU32(reg).lo, 15224)]
                    ELSE HalveU32(reg),
                    rounds - 1)

RECURSIVE Crc32cBytes(_, _)
Crc32cBytes(reg, bytes) ==
    IF reg.lo >= 0 /\ bytes # <<>>
    THEN Crc32cBytes(
             Crc32cBits([hi |-> reg.hi,
                         lo |-> BitXor(reg.lo, Head(bytes))], 8),
             Tail(bytes))
    ELSE reg

Crc32c(bytes) ==
    LET reg == Crc32cBytes([hi |-> 65535, lo |-> 65535], bytes)
    IN  [hi |-> 65535 - reg.hi, lo |-> 65535 - reg.lo]

\* The value of a digit character in the given base, -1 for any other.
DigitValue(c, base) ==
    IF \E d \in 1..base : DigitChars[d] = c
    THEN (CHOOSE d \in 1..base : DigitChars[d] = c) - 1
    ELSE -1

RECURSIVE ParseNat(_)
ParseNat(text) ==
    IF text = <<>> THEN 0
    ELSE 10 * ParseNat(SubSeq(text, 1, Len(text) - 1))
         + DigitValue(text[Len(text)], 10)

\* text is the decimal numeral of n: digits only, no leading zero, a minus
\* sign exactly when n is negative.
IsDecimalOf(text, n) ==
    LET digits == IF text # <<>> /\ text[1] = "-" THEN Tail(text) ELSE text
    IN  /\ digits # <<>>
        /\ Len(digits) <= 5
        /\ \A i \in 1..Len(digits) : DigitValue(digits[i], 10) >= 0
        /\ (Len(digits) > 1 => digits[1] # "0")
        /\ (text[1] = "-") <=> (n < 0)
        /\ ParseNat(digits) = (IF n < 0 THEN -n ELSE n)

\* text is the u32 in exactly 8 lowercase hexadecimal digits.
IsHex8Of(text, u) ==
    /\ Len(text) = 8
    /\ \A i \in 1..8 : DigitValue(text[i], 16) >= 0
    /\ u.hi = DigitValue(text[1], 16) * 4096 + DigitValue(text[2], 16) * 256
              + DigitValue(text[3], 16) * 16 + DigitValue(text[4], 16)
    /\ u.lo = DigitValue(text[5], 16) * 4096 + DigitValue(text[6], 16) * 256
              + DigitValue(text[7], 16) * 16 + DigitValue(text[8], 16)

\* text is "{major}" when minor is zero, "{major}.{minor}" otherwise.
IsRevisionText(text, revision) ==
    LET dots == {i \in 1..Len(text) : text[i] = "."}
    IN  IF minor(revision) = 0
        THEN dots = {} /\ IsDecimalOf(text, major(revision))
        ELSE /\ Cardinality(dots) = 1
             /\ LET dot == CHOOSE i \in dots : TRUE
                IN  /\ IsDecimalOf(SubSeq(text, 1, dot - 1), major(revision))
                    /\ IsDecimalOf(SubSeq(text, dot + 1, Len(text)),
                                   minor(revision))

\* (major << 16) | (minor & 0xFFFF) in 32-bit two's complement.
Recombine(mj, mn) ==
    LET shifted == [hi |-> mj % 65536, lo |-> 0]
        masked  == [hi |-> BitAnd((mn \div 65536) % 65536, 0),
                    lo |-> BitAnd(mn % 65536, 65535)]
    IN  I32OfBits([hi |-> BitOr(shifted.hi, masked.hi),
                   lo |-> BitOr(shifted.lo, masked.lo)])

IsI16(n) == -32768 <= n /\ n <= 32767

HasBit(flags, bit) == (flags \div bit) % 2 = 1

----------------------------------------------------------------------------
(* Properties. *)

\* C1: for every span shorter than 8 bytes the constructor completes and
\* returns an identity whose revision is 0 (major 0, minor 0); it never
\* fails.
C1_ShortSpanYieldsZeroRevision ==
    (pc # "call" /\ Len(head_table_data) < 8) =>
        /\ pc = "built"
        /\ id # <<>>
        /\ id[1].revision = 0
        /\ major(id[1].revision) = 0
        /\ minor(id[1].revision) = 0

\* Whenever the constructor returns for a span of 4 to 7 bytes, the revision
\* is 0: the decoding fallback proper.
ShortReadYieldsZeroRevision ==
    (id # <<>> /\ Len(head_table_data) < 8) =>
        /\ Len(head_table_data) >= 4
        /\ id[1].revision = 0

\* C2: the hash of the identity returned is the CRC-32C of the whole span
\* supplied, bytes 4..8 included, no byte skipped, reordered or dropped.
C2_HashIsChecksumOfWholeSpan ==
    id # <<>> => id[1].hash = Crc32c(head_table_data)

C2_Witness ==
    /\ pc = "built"
    /\ Len(head_table_data) = MaxLen
    /\ name_is_postscript
    /\ id[1].hash = Crc32c(head_table_data)
    /\ id[1].hash # Crc32c(SliceFrom(head_table_data, 4))
    /\ id[1].hash # Crc32c(SubSeq(head_table_data, 1, 8))

\* C3: for a span of 8 bytes or more the revision is bytes 4..7 read as a
\* signed 32-bit big-endian number; no other byte and no range check has a
\* part in it.
C3_RevisionIsSignedBigEndian ==
    (id # <<>> /\ Len(head_table_data) >= 8) =>
        id[1].revision = SignedBigEndian(head_table_data[5], head_table_data[6],
                                         head_table_data[7], head_table_data[8])

C3_Witness ==
    /\ pc = "built"
    /\ Len(head_table_data) > 8
    /\ head_table_data[1] = 255
    /\ head_table_data[9] = 255
    /\ SubSeq(head_table_data, 5, 8) = <<128, 0, 1, 5>>
    /\ id[1].revision = (-2147483647) - 1 + 261

\* C4: built with name_is_postscript the flag set holds IS_OPENTYPE and
\* HAS_POSTSCRIPT_NAME, built without it IS_OPENTYPE alone.
C4_FlagsFollowNameIsPostscript ==
    id # <<>> =>
        /\ HasBit(id[1].flags, 2)
        /\ HasBit(id[1].flags, 1) <=> name_is_postscript
        /\ id[1].flags < 4

C4_Witness ==
    /\ pc = "built"
    /\ name_is_postscript
    /\ id[1].flags = 3
    /\ contains(id[1].flags, IS_OPENTYPE)
    /\ contains(id[1].flags, HAS_POSTSCRIPT_NAME)

\* C5: major() and minor() are signed 16-bit values with
\* raw = (major << 16) | (minor & 0xFFFF) in 32-bit two's complement.
C5_MajorMinorRecombine ==
    /\ last.op = "major" =>
           /\ IsI16(last.num)
           /\ Recombine(last.num, minor(id[1].revision)) = id[1].revision
    /\ last.op = "minor" =>
           /\ IsI16(last.num)
           /\ Recombine(major(id[1].revision), last.num) = id[1].revision

C5_Witness ==
    /\ last.op = "major"
    /\ Len(head_table_data) >= 8
    /\ id[1].revision < 0
    /\ minor(id[1].revision) < 0
    /\ last.num = -128

\* C6: the text of an identity is name, "/", the revision's text, "/", the
\* hash in exactly 8 lowercase hexadecimal digits; Debug and Display give
\* the same text.
C6_CanonicalText ==
    last.op \in {"Debug", "Display"} =>
        LET text == last.text
            n    == Len(id[1].name)
            r    == Len(text) - 9
        IN  /\ r > n
            /\ SubSeq(text, 1, n) = id[1].name
            /\ text[n + 1] = "/"
            /\ SubSeq(text, n + 2, r) = FontRevision_Display_fmt(id[1].revision)
            /\ IsRevisionText(SubSeq(text, n + 2, r), id[1].revision)
            /\ text[r + 1] = "/"
            /\ IsHex8Of(SubSeq(text, r + 2, Len(text)), id[1].hash)

C6_Witness ==
    /\ last.op = "Display"
    /\ id[1].name # <<>>
    /\ id[1].hash.hi < 4096
    /\ minor(id[1].revision) # 0
    /\ Len(last.text) = Len(id[1].name) + 10 + Len(FontRevision_Debug_fmt(id[1].revision))

\* C7: the text of a revision is the decimal major alone when minor() is 0,
\* else major, a dot and minor, both as signed 16-bit numbers; 0x00010000
\* gives "1", 0x00010005 gives "1.5", 0 gives "0"; Debug and Display agree.
C7_RevisionText ==
    last.op \in {"Debug revision", "Display revision"} =>
        /\ IsRevisionText(last.text, id[1].revision)
        /\ id[1].revision = 65536 => last.text = <<"1">>
        /\ id[1].revision = 65541 => last.text = <<"1", ".", "5">>
        /\ id[1].revision = 0 => last.text = <<"0">>

C7_Witness ==
    /\ last.op = "Display revision"
    /\ id[1].revision = 65541
    /\ last.text = <<"1", ".", "5">>

C10_TextIdentifiesTriple ==
    (last.op \in {"Debug", "Display"} /\ other_text # <<>>) =>
        ((last.text = other_text[1]) <=>
            /\ id[1].name = other[1].name
            /\ id[1].revision = other[1].revision
            /\ id[1].hash = other[1].hash)

C10_Witness ==
    /\ last.op = "Display"
    /\ other_text # <<>>
    /\ last.text = other_text[1]
    /\ id[1].flags # other[1].flags
    /\ \E i \in 1..Len(id[1].name) : id[1].name[i] = "/"

====
